---- MODULE Spec2Model ----
(***************************************************************************)
(* Signed download links and the on-demand zip cache of the wedding-photos *)
(* backend (backend/server.js): POST /api/request-download signs a JWT,    *)
(* GET /api/download/:token verifies it, serves /tmp/zips/<sha256>.zip     *)
(* when it is younger than one hour and otherwise builds the archive into  *)
(* /tmp/zips/temp-<sha256>.zip and renames it; cleanupZipCache sweeps the  *)
(* directory.  One action per synchronous stretch of a handler: node runs  *)
(* a handler without interleaving up to its next await.                    *)
(***************************************************************************)
EXTENDS Integers, Sequences, FiniteSets, TLC

\* ---------------------------------------------------------------- bounds
MaxReq == 2            \* download requests per behaviour
MaxLoadReq == 4        \* download requests per behaviour of SpecLoad
MaxTokens == 1         \* download links issued per behaviour
MaxStarts == 2         \* process starts per behaviour
MaxTicks == 2          \* clock advances per behaviour

\* ------------------------------------------------------ program constants
ZIP_CACHE_MAX_AGE == 3600000
DOWNLOAD_LINK_EXPIRY == 604800
MaxTasks == 4
MaxConcurrency == 2
MaxLimit == 2
MaxHooks == 2
MaxUploads == 3
MaxLinks == 2
MaxSweepTicks == 3
MaxIssue == 2
MaxIssueMs == 2
MaxStartMs == 1500
MaxPastMs == 2
MAX_CONCURRENT_ZIPS == 3
MAX_PHOTO_SELECTION == 50
DefaultMaxSelection == 50

\* the clock advances by half the cache retention, or to half an hour before
\* a link issued a moment ago expires
HalfHour == ZIP_CACHE_MAX_AGE \div 2
LongStep == DOWNLOAD_LINK_EXPIRY * 1000 - HalfHour
TimeSteps == {HalfHour, LongStep}
TicksTaken(clock) == (clock \div LongStep) + ((clock % LongStep) \div HalfHour)
DeletableIds == {1}

Req == 1..(IF MaxReq > MaxLoadReq THEN MaxReq ELSE MaxLoadReq)
IdLists == {<<1>>, <<1, 2>>}
VARIABLES now, envSecret, starts, uploads, issued, dir, req,
          issueLog, access, hook, page, queue
vars == <<now, envSecret, starts, uploads, issued, dir, req,
          issueLog, access, hook, page, queue>>
\* what the download handlers never touch: the answers of
\* /api/request-download, the access-code routes, the webhook server
others == <<issueLog, access, hook, page, queue>>

\* the gallery page before DOMContentLoaded, and an empty ProcessingQueue
FreshPage == [selectedPhotos |-> <<>>, maxSelection |-> DefaultMaxSelection,
              saved |-> <<>>]
IdleQueue == [concurrency |-> 1, running |-> 0, waiting |-> <<>>,
              started |-> <<>>, active |-> {}, settled |-> {}, added |-> 0]

\* ------------------------------------------------------------ token codec
\* The payload travels as JSON text: a list of photo ids (strings of decimal
\* digits) is written as ["1","12"], one character per element here.
DigitChar == <<"0", "1", "2", "3", "4", "5", "6", "7", "8", "9">>
DigitVal(c) == CHOOSE d \in 0..9 : DigitChar[d + 1] = c

RECURSIVE ToDec(_)
ToDec(n) ==
  IF n < 10 THEN <<DigitChar[n + 1]>>
  ELSE ToDec(n \div 10) \o <<DigitChar[(n % 10) + 1]>>

RECURSIVE FromDec(_)
FromDec(cs) ==
  IF cs = <<>> THEN 0
  ELSE 10 * FromDec(SubSeq(cs, 1, Len(cs) - 1)) + DigitVal(cs[Len(cs)])

Quoted(cs) == <<"\"">> \o cs \o <<"\"">>
Unquoted(cs) == SubSeq(cs, 2, Len(cs) - 1)

RECURSIVE JoinIds(_)
JoinIds(ids) ==
  IF ids = <<>> THEN <<>>
  ELSE IF Len(ids) = 1 THEN Quoted(ToDec(ids[1]))
  ELSE Quoted(ToDec(ids[1])) \o <<",">> \o JoinIds(Tail(ids))

JSONstringify(ids) == <<"[">> \o JoinIds(ids) \o <<"]">>

\* the elements of a comma separated text, left to right
RECURSIVE SplitIds(_)
SplitIds(cs) ==
  IF \A i \in 1..Len(cs) : cs[i] # "," THEN <<FromDec(Unquoted(cs))>>
  ELSE LET c == CHOOSE i \in 1..Len(cs) :
                  cs[i] = "," /\ \A j \in 1..(i - 1) : cs[j] # ","
       IN <<FromDec(Unquoted(SubSeq(cs, 1, c - 1)))>>
            \o SplitIds(SubSeq(cs, c + 1, Len(cs)))

JSONparse(txt) ==
  LET inner == SubSeq(txt, 2, Len(txt) - 1)
  IN IF inner = <<>> THEN <<>> ELSE SplitIds(inner)

\* JWT_SECRET: the configured secret, or random bytes drawn at this start
JWT_SECRET == IF envSecret THEN 0 ELSE starts

\* HMAC-SHA256 over header.payload, collision free: the MAC of a message
\* under a key equals no MAC of another message or key
HS256(msg, key) == [msg |-> msg, key |-> key]

Payload(tok) == [photoIds |-> tok.photoIds, timestamp |-> tok.timestamp,
                 iat |-> tok.iat, exp |-> tok.exp]

\* the payload names the ids of the request body, not the rows they resolve to
SignedIdsResolved(photoIds, selectedPhotos) == selectedPhotos
SignedIds(photoIds, selectedPhotos) == photoIds

\* a payload without the millisecond timestamp field
jwtSignNoTimestamp(photoIds, clock, key) ==
  LET iat == clock \div 1000
      p == [photoIds |-> JSONstringify(photoIds), timestamp |-> 0,
            iat |-> iat, exp |-> iat + DOWNLOAD_LINK_EXPIRY]
  IN [photoIds |-> p.photoIds, timestamp |-> p.timestamp,
      iat |-> p.iat, exp |-> p.exp, sig |-> HS256(p, key)]

jwtSign(photoIds, clock, key) ==
  LET iat == clock \div 1000
      p == [photoIds |-> JSONstringify(photoIds), timestamp |-> clock,
            iat |-> iat, exp |-> iat + DOWNLOAD_LINK_EXPIRY]
  IN [photoIds |-> p.photoIds, timestamp |-> p.timestamp,
      iat |-> p.iat, exp |-> p.exp, sig |-> HS256(p, key)]

\* jwt.decode in place of jwt.verify: the signature is not compared
jwtVerifyNoSig(tok, key, clock) ==
  IF clock \div 1000 >= tok.exp THEN "TokenExpiredError" ELSE "ok"

\* jwt.verify with ignoreExpiration: exp is not compared with the clock
jwtVerifyNoExp(tok, key, clock) ==
  IF tok.sig # HS256(Payload(tok), key) THEN "JsonWebTokenError" ELSE "ok"

\* a verifier that still accepts the token in the second named by exp
jwtVerifyLate(tok, key, clock) ==
  IF tok.sig # HS256(Payload(tok), key) THEN "JsonWebTokenError"
  ELSE IF clock \div 1000 > tok.exp THEN "TokenExpiredError"
  ELSE "ok"

jwtVerify(tok, key, clock) ==
  IF tok.sig # HS256(Payload(tok), key) THEN "JsonWebTokenError"
  ELSE IF clock \div 1000 >= tok.exp THEN "TokenExpiredError"
  ELSE "ok"

\* token strings an attacker can derive from an issued one: same signature,
\* other photo ids or another timestamp
Tampered(tok) ==
  {[tok EXCEPT !.photoIds = JSONstringify(ids)] :
     ids \in IdLists \ {JSONparse(tok.photoIds)}}
    \cup {[tok EXCEPT !.timestamp = tok.timestamp + 1]}

\* a token signed with the server's secret by its holder, naming no photo
Minted(clock, key) == {jwtSign(<<>>, clock, key)}

Presentable == issued \cup UNION {Tampered(t) : t \in issued}

\* ------------------------------------------------------------- file system
tokenHash(tok) == <<"sha256", tok>>
cacheFilePath(h) == <<"/tmp/zips", "", h, ".zip">>
tempZipPath(h) == <<"/tmp/zips", "temp-", h, ".zip">>

Filename(id) == 100 + id

\* fs.createWriteStream(p): opens with flag 'w', creating the file or
\* truncating the one that is there (the same inode other writers hold)
OpenForWrite(d, p, r, clock) ==
  IF p \in DOMAIN d
  THEN [d EXCEPT ![p] = [entries |-> <<>>, writers |-> d[p].writers \cup {r},
                         mtime |-> clock, finalized |-> FALSE,
                         intact |-> d[p].writers = {}]]
  ELSE [q \in DOMAIN d \cup {p} |->
          IF q = p THEN [entries |-> <<>>, writers |-> {r}, mtime |-> clock,
                         finalized |-> FALSE, intact |-> TRUE]
          ELSE d[q]]

WriteEntry(d, r, name, clock) ==
  [p \in DOMAIN d |->
     IF r \in d[p].writers
     THEN [d[p] EXCEPT !.entries = Append(@, name), !.mtime = clock]
     ELSE d[p]]

\* archive.finalize() followed by the end of the output stream
CloseWriter(d, r, clock) ==
  [p \in DOMAIN d |->
     IF r \in d[p].writers
     THEN [d[p] EXCEPT !.writers = @ \ {r}, !.finalized = TRUE,
                       !.mtime = clock]
     ELSE d[p]]

Unlink(d, p) == [q \in DOMAIN d \ {p} |-> d[q]]

Rename(d, from, to) ==
  [q \in (DOMAIN d \ {from}) \cup {to} |-> IF q = to THEN d[from] ELSE d[q]]

\* ----------------------------------------------------------------- requests
IdleReq == [pc |-> "idle", token |-> <<>>, status |-> 0, lookup |-> "none",
            at |-> 0, age |-> -1, selected |-> <<>>, idx |-> 0, appended |-> <<>>,
            served |-> <<>>, overlapped |-> {}, connected |-> TRUE]
GoneReq == [IdleReq EXCEPT !.pc = "gone"]

InFlight(r) == req[r].pc \in {"db", "fetch", "finalize", "install"}
Building(r) == req[r].pc \in {"fetch", "finalize", "install"}
Quiet == \A r \in Req : ~InFlight(r)

\* the freshness test with the boundary on the wrong side
CacheFreshLax(age) == age <= ZIP_CACHE_MAX_AGE
CacheFresh(age) == age < ZIP_CACHE_MAX_AGE

\* a filter for which an id that is not found is fatal
SelectAllOrNone(s, ids) ==
  IF \A i \in 1..Len(ids) : \E j \in 1..Len(s) : s[j] = ids[i]
  THEN SelectSeq(s, LAMBDA x : \E i \in 1..Len(ids) : ids[i] = x)
  ELSE <<>>

SelectSeq2(s, ids) ==
  SelectSeq(s, LAMBDA x : \E i \in 1..Len(ids) : ids[i] = x)

ArrayBody(ids) == [photoIds |-> [kind |-> "array", items |-> ids], email |-> TRUE]
\* request bodies whose photo ids resolve
GoodBodies == {b \in {ArrayBody(ids) : ids \in IdLists} :
                 SelectSeq2(uploads, b.photoIds.items) # <<>>}

Init ==
  /\ now = 0
  /\ envSecret \in BOOLEAN
  /\ starts = 1
  /\ uploads = <<2, 1>>
  /\ issued = {}
  /\ dir = <<>>
  /\ req = [r \in Req |-> IdleReq]
  /\ issueLog = {}
  /\ access = [required |-> TRUE, granted |-> {}, served |-> {}]
  /\ hook = {}
  /\ page = FreshPage
  /\ queue = IdleQueue

\* photoIds.length > MAX_PHOTO_SELECTION
TooManyLax(photoIds) == Len(photoIds) > MAX_PHOTO_SELECTION + 1
TooMany(photoIds) == Len(photoIds) > MAX_PHOTO_SELECTION

\* How the delivery of the email ends: "sent"; "thrown", the awaited call
\* rejects (transporter.verify or sendMail of the SMTP path, a network error);
\* "refused", resend.emails.send resolves with { data: null, error } because
\* the API refused the message, a value the handler does not look at.
Deliveries == {"sent", "thrown", "refused"}

\* POST /api/request-download. The answer is kept in issueLog, a signed
\* token in issued.
RequestDownloadVia(body, delivery) ==
  LET photoIds == body.photoIds.items
      selectedPhotos == SelectSeq2(uploads, photoIds)
      token == jwtSign(SignedIds(photoIds, selectedPhotos), now, JWT_SECRET)
      answer(status, tok, mailed) ==
        [body |-> body, at |-> now, status |-> status, token |-> tok,
         mailed |-> mailed]
  IN /\ IF body.photoIds.kind # "array" \/ Len(photoIds) = 0
        THEN issueLog' = issueLog \cup {answer(400, <<>>, FALSE)} /\ issued' = issued
        ELSE IF ~body.email
        THEN issueLog' = issueLog \cup {answer(400, <<>>, FALSE)} /\ issued' = issued
        ELSE IF TooMany(photoIds)
        THEN issueLog' = issueLog \cup {answer(400, <<>>, FALSE)} /\ issued' = issued
        ELSE IF selectedPhotos = <<>>
        THEN issueLog' = issueLog \cup {answer(400, <<>>, FALSE)} /\ issued' = issued
        ELSE /\ issued' = issued \cup {token}
             /\ issueLog' = issueLog \cup
                  {answer(IF delivery = "thrown" THEN 500 ELSE 200, <<token>>,
                          delivery = "sent")}
     /\ UNCHANGED <<now, envSecret, starts, uploads, dir, req, access, hook, page, queue>>

\* the same with a delivery that is sent (mailOk) or throws
RequestDownload(body, mailOk) ==
  RequestDownloadVia(body, IF mailOk THEN "sent" ELSE "thrown")

\* a cache that counts the age of an entry from its last hit
ServeCachedTouch(d, p, clock) == [d EXCEPT ![p].mtime = clock]
\* fs.createReadStream(cacheFilePath).pipe(res): the file is only read
ServeCached(d, p, clock) == d

\* !photoIds || !Array.isArray(photoIds) || photoIds.length === 0
NoPhotoIdsUnchecked(photoIds) == FALSE
NoPhotoIds(photoIds) == Len(photoIds) = 0

\* GET /api/download/:token up to the await of getAllUploads
Download(r, tok) ==
  /\ req[r].pc = "idle"
  /\ \A q \in Req : q < r => req[q].pc # "idle"
  /\ LET verdict == jwtVerify(tok, JWT_SECRET, now)
         p == cacheFilePath(tokenHash(tok))
         base == [req[r] EXCEPT !.token = tok, !.at = now,
                    !.overlapped = {q \in Req : InFlight(q) /\ req[q].token = tok}]
     IN IF verdict = "TokenExpiredError"
        THEN /\ req' = [req EXCEPT ![r] = [base EXCEPT !.pc = "done", !.status = 410]]
             /\ dir' = dir
        ELSE IF verdict # "ok" \/ NoPhotoIds(JSONparse(tok.photoIds))
        THEN /\ req' = [req EXCEPT ![r] = [base EXCEPT !.pc = "done", !.status = 400]]
             /\ dir' = dir
        ELSE IF p \in DOMAIN dir /\ CacheFresh(now - dir[p].mtime)
        THEN /\ req' = [req EXCEPT ![r] = [base EXCEPT !.pc = "done", !.status = 200,
                                            !.age = now - dir[p].mtime,
                                            !.lookup = "fresh", !.served = <<dir[p]>>]]
             /\ dir' = ServeCached(dir, p, now)
        ELSE IF p \in DOMAIN dir
        THEN /\ req' = [req EXCEPT ![r] = [base EXCEPT !.pc = "db", !.lookup = "stale",
                                            !.age = now - dir[p].mtime]]
             /\ dir' = Unlink(dir, p)
        ELSE /\ req' = [req EXCEPT ![r] = [base EXCEPT !.pc = "db", !.lookup = "absent"]]
             /\ dir' = dir
  /\ UNCHANGED <<now, envSecret, starts, uploads, issued>>
  /\ UNCHANGED others

\* getAllUploads resolves: filter, 404, or open the temp file and start the loop
UploadsLoaded(r) ==
  /\ req[r].pc = "db"
  /\ LET sel == SelectSeq2(uploads, JSONparse(req[r].token.photoIds))
     IN IF sel = <<>>
        THEN /\ req' = [req EXCEPT ![r].pc = "done", ![r].status = 404]
             /\ dir' = dir
        ELSE /\ req' = [req EXCEPT ![r].pc = "fetch", ![r].selected = sel, ![r].idx = 1]
             /\ dir' = OpenForWrite(dir, tempZipPath(tokenHash(req[r].token)), r, now)
  /\ UNCHANGED <<now, envSecret, starts, uploads, issued>>
  /\ UNCHANGED others

\* one iteration of the photo loop; ok is the outcome of presign + axios.get
FetchPhoto(r, ok) ==
  /\ req[r].pc = "fetch"
  /\ LET name == Filename(req[r].selected[req[r].idx])
         last == req[r].idx = Len(req[r].selected)
     IN /\ req' = [req EXCEPT ![r].idx = @ + 1,
                              ![r].appended = IF ok THEN Append(@, name) ELSE @,
                              ![r].pc = IF last THEN "finalize" ELSE "fetch"]
        /\ dir' = IF ok THEN WriteEntry(dir, r, name, now) ELSE dir
  /\ UNCHANGED <<now, envSecret, starts, uploads, issued>>
  /\ UNCHANGED others

\* the output stream's 'close' after archive.finalize()
OutputClosed(r) ==
  /\ req[r].pc = "finalize"
  /\ req' = [req EXCEPT ![r].pc = "install"]
  /\ dir' = CloseWriter(dir, r, now)
  /\ UNCHANGED <<now, envSecret, starts, uploads, issued>>
  /\ UNCHANGED others

\* a handler that gives the build up once its requester is gone
InstallIfConnected(r) ==
  /\ req[r].pc = "install"
  /\ LET h == tokenHash(req[r].token)
     IN IF tempZipPath(h) \in DOMAIN dir /\ req[r].connected
        THEN /\ dir' = Rename(dir, tempZipPath(h), cacheFilePath(h))
             /\ req' = [req EXCEPT ![r].pc = "done", ![r].status = 200,
                                   ![r].served = <<dir[tempZipPath(h)]>>]
        ELSE /\ dir' = dir
             /\ req' = [req EXCEPT ![r].pc = "done", ![r].status = 500]
  /\ UNCHANGED <<now, envSecret, starts, uploads, issued>>
  /\ UNCHANGED others

\* statSync(tempZipPath), renameSync, createReadStream(cacheFilePath)
InstallAndStream(r) ==
  /\ req[r].pc = "install"
  /\ LET h == tokenHash(req[r].token)
     IN IF tempZipPath(h) \in DOMAIN dir
        THEN /\ dir' = Rename(dir, tempZipPath(h), cacheFilePath(h))
             /\ req' = [req EXCEPT ![r].pc = "done", ![r].status = 200,
                                   ![r].served = <<dir[tempZipPath(h)]>>]
        ELSE /\ dir' = dir
             /\ req' = [req EXCEPT ![r].pc = "done", ![r].status = 500]
  /\ UNCHANGED <<now, envSecret, starts, uploads, issued>>
  /\ UNCHANGED others

\* the orders in which readdirSync can list a set of files
Orders(S) ==
  {f \in [1..Cardinality(S) -> S] :
     \A i, j \in 1..Cardinality(S) : i # j => f[i] # f[j]}
AnOrder(S) == CHOOSE f \in Orders(S) : TRUE

\* setInterval(cleanupZipCache, 1 hour): files is the listing of readdirSync,
\* vanished the listed files somebody else removed before the loop reaches
\* them. statSync of a vanished file throws, and the one try/catch around the
\* loop ends the run there.
cleanupZipCache(files, vanished) ==
  LET stop == IF \E i \in 1..Len(files) : files[i] \in vanished
              THEN CHOOSE i \in 1..Len(files) :
                     files[i] \in vanished
                       /\ \A j \in 1..(i - 1) : files[j] \notin vanished
              ELSE Len(files) + 1
      unlinked == {files[i] : i \in {j \in 1..(stop - 1) :
                     now - dir[files[j]].mtime > ZIP_CACHE_MAX_AGE}}
  IN /\ dir' = [p \in DOMAIN dir \ (unlinked \cup vanished) |-> dir[p]]
     /\ dir' # dir
     /\ UNCHANGED <<now, envSecret, starts, uploads, issued, req>>
     /\ UNCHANGED others

\* DELETE /api/admin/delete/:id
AdminDelete(id) ==
  /\ \E i \in 1..Len(uploads) : uploads[i] = id
  /\ uploads' = SelectSeq(uploads, LAMBDA x : x # id)
  /\ UNCHANGED <<now, envSecret, starts, issued, dir, req>>
  /\ UNCHANGED others

\* the process exits and starts again: memory is lost, /tmp/zips is kept
Restart ==
  /\ starts < MaxStarts
  /\ starts' = starts + 1
  /\ req' = [r \in Req |-> IF req[r].pc = "idle" THEN req[r] ELSE GoneReq]
  /\ dir' = [p \in DOMAIN dir |-> [dir[p] EXCEPT !.writers = {}]]
  /\ UNCHANGED <<now, envSecret, uploads, issued>>
  /\ UNCHANGED others

\* time passes between requests: a clock step is half an hour at least, a
\* request spends 30 s at most on each photo
Tick(d) ==
  /\ Quiet
  /\ TicksTaken(now) < MaxTicks
  /\ now' = now + d
  /\ UNCHANGED <<envSecret, starts, uploads, issued, dir, req>>
  /\ UNCHANGED others

Next ==
  \/ \E body \in GoodBodies :
       Cardinality(issued) < MaxTokens /\ RequestDownload(body, TRUE)
  \/ \E r \in 1..MaxReq, tok \in Presentable : Download(r, tok)
  \/ \E r \in Req : UploadsLoaded(r)
  \/ \E r \in Req, ok \in BOOLEAN : FetchPhoto(r, ok)
  \/ \E r \in Req : OutputClosed(r)
  \/ \E r \in Req : InstallAndStream(r)
  \/ cleanupZipCache(AnOrder(DOMAIN dir), {})
  \/ \E id \in DeletableIds : AdminDelete(id)
  \/ Restart
  \/ \E d \in TimeSteps : Tick(d)

Spec == Init /\ [][Next]_vars

\* the same server, also shown tokens that a holder of its secret signed
\* for an empty list of photos
NextMinted ==
  \/ \E r \in 1..MaxReq, tok \in Minted(0, JWT_SECRET) : Download(r, tok)
  \/ Next

SpecMinted == Init /\ [][NextMinted]_vars

\* many downloads of issued links at one moment, every fetch succeeding: no
\* clock, no janitor, no restart, no deletion
NextLoad ==
  \/ \E body \in GoodBodies :
       Cardinality(issued) < MaxTokens /\ RequestDownload(body, TRUE)
  \/ \E r \in 1..MaxLoadReq, tok \in issued : Download(r, tok)
  \/ \E r \in Req : UploadsLoaded(r)
  \/ \E r \in Req : FetchPhoto(r, TRUE)
  \/ \E r \in Req : OutputClosed(r)
  \/ \E r \in Req : InstallAndStream(r)

SpecLoad == Init /\ [][NextLoad]_vars

\* link requests of every shape, some milliseconds apart: the photoIds field
\* missing, a string, or arrays that are empty, short, unknown to the
\* database, exactly at the limit and one over it; with and without email
AtLimit == [i \in 1..MAX_PHOTO_SELECTION |-> i]
OverLimit == [i \in 1..(MAX_PHOTO_SELECTION + 1) |-> i]
ArrayLists == IdLists \cup {<<>>, <<2, 1>>, <<1, 12>>, <<12>>, AtLimit, OverLimit}
Bodies ==
  {[photoIds |-> [kind |-> "array", items |-> ids], email |-> e] :
     ids \in ArrayLists, e \in BOOLEAN}
    \cup {[photoIds |-> [kind |-> k, items |-> <<>>], email |-> TRUE] :
            k \in {"missing", "string"}}

TickMs ==
  /\ now < MaxIssueMs
  /\ now' = now + 1
  /\ UNCHANGED <<envSecret, starts, uploads, issued, dir, req>>
  /\ UNCHANGED others

NextIssue ==
  \/ \E body \in Bodies, delivery \in Deliveries :
       Cardinality(issueLog) < MaxIssue /\ RequestDownloadVia(body, delivery)
  \/ \E id \in DeletableIds : AdminDelete(id)
  \/ TickMs

SpecIssue == Init /\ [][NextIssue]_vars

\* the hourly sweep, and a clock that moves on while a build is under way:
\* Date.now() is the system clock, which jumps when it is set forward or when
\* the suspended process is resumed
TickBusy ==
  /\ now \div HalfHour < MaxSweepTicks
  /\ now' = now + HalfHour
  /\ UNCHANGED <<envSecret, starts, uploads, issued, dir, req>>
  /\ UNCHANGED others

Handlers(links) ==
  \/ \E body \in GoodBodies :
       Cardinality(issued) < links /\ RequestDownload(body, TRUE)
  \/ \E r \in 1..MaxReq, tok \in issued : Download(r, tok)
  \/ \E r \in Req : UploadsLoaded(r)
  \/ \E r \in Req : FetchPhoto(r, TRUE)
  \/ \E r \in Req : OutputClosed(r)
  \/ \E r \in Req : InstallAndStream(r)

NextCache ==
  \/ Handlers(MaxTokens)
  \/ TickBusy
  \/ cleanupZipCache(AnOrder(DOMAIN dir), {})

SpecCache == Init /\ [][NextCache]_vars

\* two links, and files of the cache directory removed from outside the
\* server while a sweep is under way
NextSweep ==
  \/ Handlers(MaxLinks)
  \/ Quiet /\ TickBusy
  \/ \E files \in Orders(DOMAIN dir), gone \in DOMAIN dir \cup {<<>>} :
       cleanupZipCache(files, {gone} \cap DOMAIN dir)

SpecSweep == Init /\ [][NextSweep]_vars

\* two links issued milliseconds apart, and their downloads
NextLinks ==
  \/ Handlers(MaxLinks)
  \/ TickMs

SpecLinks == Init /\ [][NextLinks]_vars

\* the requester closes the connection while its request is in flight; the
\* handler registers no listener for it
Disconnect(r) ==
  /\ InFlight(r) /\ req[r].connected
  /\ req' = [req EXCEPT ![r].connected = FALSE]
  /\ UNCHANGED <<now, envSecret, starts, uploads, issued, dir>>
  /\ UNCHANGED others

\* what the event loop runs for request r once its awaited promise settled
Continue(r) ==
  \/ UploadsLoaded(r)
  \/ \E ok \in BOOLEAN : FetchPhoto(r, ok)
  \/ OutputClosed(r)
  \/ InstallAndStream(r)

NextDrop ==
  \/ \E body \in GoodBodies :
       Cardinality(issued) < MaxTokens /\ RequestDownload(body, TRUE)
  \/ \E r \in 1..MaxReq, tok \in issued : Download(r, tok)
  \/ \E r \in Req : Continue(r)
  \/ \E r \in Req : Disconnect(r)

\* every awaited promise settles (the photo fetch has a 30 s timeout) and the
\* event loop then runs its continuation
SpecDrop ==
  Init /\ [][NextDrop]_vars /\ \A r \in Req : WF_vars(Continue(r))

\* ------------------------------------------------------ access-code routes
\* Clients are told apart by who sends the request; the server keeps nothing
\* about them. granted: clients that were answered success by /api/access;
\* served: answers 200 of the upload and gallery routes.
Clients == {1, 2}
ACCESS_CODE == "WINTER2025"
Codes == {"", "WINTER2025", "SUMMER2025"}
Served(c, route) == [client |-> c, route |-> route]

\* POST /api/access
Access(c, code) ==
  /\ IF ~access.required THEN access' = [access EXCEPT !.granted = @ \cup {c}]
     ELSE IF code = "" THEN access' = access
     ELSE IF code = ACCESS_CODE THEN access' = [access EXCEPT !.granted = @ \cup {c}]
     ELSE access' = access
  /\ UNCHANGED <<now, envSecret, starts, uploads, issued, dir, req, issueLog, hook, page, queue>>

\* POST /api/upload-url; complete: filename and contentType are present
UploadUrl(c, complete) ==
  /\ IF ~complete THEN access' = access
     ELSE access' = [access EXCEPT !.served = @ \cup {Served(c, "upload-url")}]
  /\ UNCHANGED <<now, envSecret, starts, uploads, issued, dir, req, issueLog, hook, page, queue>>

\* POST /api/confirm; complete: filename, s3Key, s3Url and fileType are
\* present. The new row gets the next id and is the newest of the gallery.
NextId == 1 + (CHOOSE m \in 0..MaxUploads :
                 /\ \A i \in 1..Len(uploads) : uploads[i] <= m
                 /\ m > 0 => \E i \in 1..Len(uploads) : uploads[i] = m)
Confirm(c, complete) ==
  /\ Len(uploads) < MaxUploads
  /\ IF ~complete THEN access' = access /\ uploads' = uploads
     ELSE /\ uploads' = <<NextId>> \o uploads
          /\ access' = [access EXCEPT !.served = @ \cup {Served(c, "confirm")}]
  /\ UNCHANGED <<now, envSecret, starts, issued, dir, req, issueLog, hook, page, queue>>

\* GET /api/photos
Photos(c) ==
  /\ access' = [access EXCEPT !.served = @ \cup {Served(c, "photos")}]
  /\ UNCHANGED <<now, envSecret, starts, uploads, issued, dir, req, issueLog, hook, page, queue>>

InitAccess ==
  /\ now = 0
  /\ envSecret \in BOOLEAN
  /\ starts = 1
  /\ uploads = <<2, 1>>
  /\ issued = {}
  /\ dir = <<>>
  /\ req = [r \in Req |-> IdleReq]
  /\ issueLog = {}
  /\ access \in {[required |-> b, granted |-> {}, served |-> {}] : b \in BOOLEAN}
  /\ hook = {}
  /\ page = FreshPage
  /\ queue = IdleQueue

NextAccess ==
  \/ \E c \in Clients, code \in Codes : Access(c, code)
  \/ \E c \in Clients, complete \in BOOLEAN : UploadUrl(c, complete)
  \/ \E c \in Clients, complete \in BOOLEAN : Confirm(c, complete)
  \/ \E c \in Clients : Photos(c)

SpecAccess == InitAccess /\ [][NextAccess]_vars

\* ----------------------------------------------------------- webhook server
\* A request to the webhook server: method and url, the x-hub-signature-256
\* header (absent, the HMAC-SHA256 of the body under WEBHOOK_SECRET, or of
\* the body under another secret), and the body: text that is no JSON, the
\* JSON value null, or an object with action and workflow_run.conclusion
\* (conclusion "" stands for an object without workflow_run).
Routes == {<<"GET", "/health">>, <<"POST", "/webhook">>, <<"GET", "/webhook">>,
           <<"POST", "/health">>}
Signers == {"none", "SECRET", "other"}
Payloads ==
  {[json |-> "no"], [json |-> "null"]}
    \cup {[json |-> "object", action |-> a, conclusion |-> c] :
            a \in {"completed", "requested"}, c \in {"success", "failure", ""}}
HookRequests ==
  {[route |-> rt, signer |-> sg, body |-> b] :
     rt \in Routes, sg \in Signers, b \in Payloads}

\* 'sha256=' + hmac.update(body).digest('hex')
Digest(body, secret) == <<"sha256=", HS256(body, secret)>>
Header(h) ==
  IF h.signer = "none" THEN <<>> ELSE <<Digest(h.body, h.signer)>>

\* a handler that goes on after a signature mismatch
SignatureBadUnchecked(signature, digest) == FALSE
SignatureBad(signature, digest) == signature # digest

\* http.createServer handler; the answer names the status and whether
\* exec(bash webhook-deploy.sh WEBHOOK_TRIGGERED) was called
Answer(h, status, deploy) == [request |-> h, status |-> status, deploy |-> deploy]
Webhook(h) ==
  LET signature == Header(h)
      digest == Digest(h.body, "SECRET")
      answer ==
        IF h.route = <<"GET", "/health">> THEN Answer(h, 200, FALSE)
        ELSE IF h.route # <<"POST", "/webhook">> THEN Answer(h, 404, FALSE)
        ELSE IF signature = <<>> THEN Answer(h, 401, FALSE)
        ELSE IF SignatureBad(signature[1], digest) THEN Answer(h, 401, FALSE)
        ELSE IF h.body.json = "no" THEN Answer(h, 400, FALSE)
        ELSE IF h.body.json = "null" THEN Answer(h, 500, FALSE)
        ELSE IF h.body.action = "completed" /\ h.body.conclusion = "success"
        THEN Answer(h, 200, TRUE)
        ELSE Answer(h, 200, FALSE)
  IN /\ Cardinality(hook) < MaxHooks
     /\ hook' = hook \cup {answer}
     /\ UNCHANGED <<now, envSecret, starts, uploads, issued, dir, req,
                    issueLog, access, page, queue>>

NextHook == \E h \in HookRequests : Webhook(h)

SpecHook == Init /\ [][NextHook]_vars

\* ------------------------------------------------------------ gallery page
\* selectedPhotos is the Set in insertion order; saved is the localStorage
\* item 'selectedPhotos' (absent, or the JSON text of an array of ids).
PagePhotos == 1..(MaxLimit + 1)
Limits == 1..MaxLimit
SetAdd(sel, id) ==
  IF \E i \in 1..Len(sel) : sel[i] = id THEN sel ELSE Append(sel, id)
SetDelete(sel, id) == SelectSeq(sel, LAMBDA x : x # id)
SetHas(sel, id) == \E i \in 1..Len(sel) : sel[i] = id
RECURSIVE NewSet(_)
NewSet(ids) ==
  IF ids = <<>> THEN <<>>
  ELSE SetAdd(NewSet(SubSeq(ids, 1, Len(ids) - 1)), ids[Len(ids)])

PageOnly ==
  UNCHANGED <<now, envSecret, starts, uploads, issued, dir, req, issueLog,
              access, hook, queue>>

\* DOMContentLoaded of a newly loaded page: configOk says whether
\* GET /api/config answered, limit is its maxPhotoSelection
PageLoad(configOk, limit) ==
  /\ page' =
       IF ~configOk
       THEN [FreshPage EXCEPT !.saved = page.saved]
       ELSE [selectedPhotos |->
               IF page.saved = <<>> THEN <<>>
               ELSE NewSet(JSONparse(page.saved[1])),
             maxSelection |-> limit,
             saved |-> page.saved]
  /\ PageOnly

\* change event of a grid checkbox
handlePhotoSelection(photoId, isSelected) ==
  /\ IF isSelected /\ Len(page.selectedPhotos) >= page.maxSelection
     THEN page' = page
     ELSE LET sel == IF isSelected THEN SetAdd(page.selectedPhotos, photoId)
                     ELSE SetDelete(page.selectedPhotos, photoId)
          IN page' = [page EXCEPT !.selectedPhotos = sel,
                                  !.saved = <<JSONstringify(sel)>>]
  /\ PageOnly

\* click on the select button of the lightbox showing photoId
toggleLightboxSelection(photoId) ==
  LET newState == ~SetHas(page.selectedPhotos, photoId)
  IN /\ IF newState /\ Len(page.selectedPhotos) >= page.maxSelection
        THEN page' = page
        ELSE page' = [page EXCEPT !.selectedPhotos =
                        IF newState THEN SetAdd(@, photoId)
                        ELSE SetDelete(@, photoId)]
     /\ PageOnly

clearAllSelections ==
  /\ page' = [page EXCEPT !.selectedPhotos = <<>>]
  /\ PageOnly

\* two seconds after /api/request-download answered ok
LinkSent ==
  /\ page.selectedPhotos # <<>>
  /\ page' = [page EXCEPT !.selectedPhotos = <<>>, !.saved = <<>>]
  /\ PageOnly

NextPage ==
  \/ \E configOk \in BOOLEAN, limit \in Limits : PageLoad(configOk, limit)
  \/ \E id \in PagePhotos, isSelected \in BOOLEAN :
       handlePhotoSelection(id, isSelected)
  \/ \E id \in PagePhotos : toggleLightboxSelection(id)
  \/ clearAllSelections
  \/ LinkSent

SpecPage == Init /\ [][NextPage]_vars

\* --------------------------------------------------------- ProcessingQueue
\* waiting is this.queue: entries { task, resolve, reject }, a task named by
\* the number of its add() call; throws marks a task that throws before its
\* first await. started lists the tasks in the order task() was called,
\* active holds those whose await has not returned, settled the promises of
\* add() with the value they were resolved or rejected with.
Settled(entry, kind) == [promise |-> entry.id, kind |-> kind, of |-> entry.id]

\* a queue that lets one task more than its limit run
RECURSIVE processNextLoose(_)
processNextLoose(q) ==
  IF q.running > q.concurrency \/ q.waiting = <<>> THEN q
  ELSE LET e == Head(q.waiting)
           q1 == [q EXCEPT !.running = @ + 1, !.waiting = Tail(@),
                           !.started = Append(@, e.id)]
       IN IF e.throws
          THEN processNextLoose([q1 EXCEPT !.running = @ - 1,
                                  !.settled = @ \cup {Settled(e, "rejected")}])
          ELSE [q1 EXCEPT !.active = @ \cup {e.id}]

\* a queue that takes the newest entry first
RECURSIVE processNextNewest(_)
processNextNewest(q) ==
  IF q.running >= q.concurrency \/ q.waiting = <<>> THEN q
  ELSE LET e == q.waiting[Len(q.waiting)]
           q1 == [q EXCEPT !.running = @ + 1,
                           !.waiting = SubSeq(@, 1, Len(@) - 1),
                           !.started = Append(@, e.id)]
       IN IF e.throws
          THEN processNextNewest([q1 EXCEPT !.running = @ - 1,
                                   !.settled = @ \cup {Settled(e, "rejected")}])
          ELSE [q1 EXCEPT !.active = @ \cup {e.id}]

\* processNext up to its await; a task that throws at once is rejected and
\* the finally block calls processNext again
RECURSIVE processNext(_)
processNext(q) ==
  IF q.running >= q.concurrency \/ q.waiting = <<>> THEN q
  ELSE LET e == Head(q.waiting)
           q1 == [q EXCEPT !.running = @ + 1, !.waiting = Tail(@),
                           !.started = Append(@, e.id)]
       IN IF e.throws
          THEN processNext([q1 EXCEPT !.running = @ - 1,
                             !.settled = @ \cup {Settled(e, "rejected")}])
          ELSE [q1 EXCEPT !.active = @ \cup {e.id}]

QueueOnly ==
  UNCHANGED <<now, envSecret, starts, uploads, issued, dir, req, issueLog,
              access, hook, page>>

\* add(task)
add(throws) ==
  /\ queue.added < MaxTasks
  /\ queue' = processNext([queue EXCEPT
                  !.added = @ + 1,
                  !.waiting = Append(@, [id |-> queue.added + 1, throws |-> throws])])
  /\ QueueOnly

\* the await of task t returns (fulfilled) or throws: resolve or reject,
\* then the finally block
TaskSettles(t, fulfilled) ==
  /\ t \in queue.active
  /\ queue' = processNext([queue EXCEPT
                  !.active = @ \ {t},
                  !.running = @ - 1,
                  !.settled = @ \cup {[promise |-> t, of |-> t,
                     kind |-> IF fulfilled THEN "resolved" ELSE "rejected"]}])
  /\ QueueOnly

InitQueue ==
  /\ now = 0
  /\ envSecret \in BOOLEAN
  /\ starts = 1
  /\ uploads = <<2, 1>>
  /\ issued = {}
  /\ dir = <<>>
  /\ req = [r \in Req |-> IdleReq]
  /\ issueLog = {}
  /\ access = [required |-> TRUE, granted |-> {}, served |-> {}]
  /\ hook = {}
  /\ page = FreshPage
  /\ queue \in {[IdleQueue EXCEPT !.concurrency = c] : c \in 1..MaxConcurrency}

NextQueue ==
  \/ \E throws \in BOOLEAN : add(throws)
  \/ \E t \in 1..MaxTasks, fulfilled \in BOOLEAN : TaskSettles(t, fulfilled)

\* running tasks finish
SpecQueue ==
  InitQueue /\ [][NextQueue]_vars
    /\ \A t \in 1..MaxTasks : WF_vars(\E fulfilled \in BOOLEAN : TaskSettles(t, fulfilled))

\* the clock at millisecond resolution around the end of a link's validity:
\* the server starts on or off a whole second, a link is issued, and the
\* clock moves to two milliseconds before issue time + 7 days and on by
\* single milliseconds
WindowMs == DOWNLOAD_LINK_EXPIRY * 1000
StartTimes == {0, 1, 999, 1000, MaxStartMs}
FineSteps == {WindowMs - 2, 1}

InitExpiry ==
  /\ now \in StartTimes
  /\ envSecret \in BOOLEAN
  /\ starts = 1
  /\ uploads = <<2, 1>>
  /\ issued = {}
  /\ dir = <<>>
  /\ req = [r \in Req |-> IdleReq]
  /\ issueLog = {}
  /\ access = [required |-> TRUE, granted |-> {}, served |-> {}]
  /\ hook = {}
  /\ page = FreshPage
  /\ queue = IdleQueue

TickFine(d) ==
  /\ Quiet
  /\ issued # {}
  /\ \A t \in issued :
       /\ d = 1 => now >= t.timestamp + WindowMs - 2
       /\ now + d <= t.timestamp + WindowMs + MaxPastMs
  /\ now' = now + d
  /\ UNCHANGED <<envSecret, starts, uploads, issued, dir, req>>
  /\ UNCHANGED others

NextExpiry ==
  \/ \E body \in GoodBodies :
       Cardinality(issued) < MaxTokens /\ RequestDownload(body, TRUE)
  \/ \E r \in 1..MaxReq, tok \in issued : Download(r, tok)
  \/ \E r \in Req : UploadsLoaded(r)
  \/ \E r \in Req : FetchPhoto(r, TRUE)
  \/ \E r \in Req : OutputClosed(r)
  \/ \E r \in Req : InstallAndStream(r)
  \/ \E d \in FineSteps : TickFine(d)

SpecExpiry == InitExpiry /\ [][NextExpiry]_vars

\* ------------------------------------------------------------------ claims
Done(r) == req[r].pc = "done"
CachePathOf(r) == cacheFilePath(tokenHash(req[r].token))
IsCachePath(p) == p[2] = ""
\* a whole archive: central directory written, one writer only, now closed
Complete(f) == f.finalized /\ f.intact /\ f.writers = {}
SignedHere(tok) == tok.sig = HS256(Payload(tok), JWT_SECRET)
Built(r) == Done(r) /\ req[r].selected # <<>>

\* C1: requests for the same token that overlap never have two archive
\* builds running at once: at most one build per cache key is in flight.
C1_OneBuildPerKey ==
  \A r1, r2 \in Req :
    (r1 # r2 /\ Building(r1) /\ Building(r2))
      => tokenHash(req[r1].token) # tokenHash(req[r2].token)

\* C2: whenever the final cache path <sha256(token)>.zip exists, its content
\* is a completely finalized archive that no writer has open for writing.
C2_FinalPathComplete ==
  \A p \in DOMAIN dir : IsCachePath(p) => Complete(dir[p])

\* C3: two finished requests that overlapped on the same token got the same
\* outcome: the same status and the same archive bytes.
C3_SameOutcome ==
  \A r1, r2 \in Req :
    (Done(r1) /\ Done(r2) /\ r1 \in req[r2].overlapped)
      => /\ req[r1].status = req[r2].status
         /\ req[r1].served = req[r2].served

\* C4 as stated: a retrieval that finds a cache entry aged one hour or more
\* deletes it, runs a new build and ends serving the newly built archive.
C4_StaleRebuiltAndServed ==
  \A r \in Req :
    (Done(r) /\ req[r].lookup = "stale")
      => /\ req[r].status = 200
         /\ req[r].served # <<>>
         /\ req[r].served[1].mtime >= req[r].at

\* C4 amended: no request streams a file that was one hour old or older at
\* its lookup; a retrieval that finds such a file has deleted it, and when it
\* answers 200 it went through the whole photo loop again and streams a file
\* written after its lookup; otherwise it answers 404 or 500.
C4_StaleNeverServed ==
  \A r \in Req :
    /\ req[r].served # <<>>
         => req[r].at - req[r].served[1].mtime < ZIP_CACHE_MAX_AGE
    /\ req[r].age >= ZIP_CACHE_MAX_AGE => req[r].lookup = "stale"
    /\ (InFlight(r) /\ req[r].lookup = "stale")
         => \/ CachePathOf(r) \notin DOMAIN dir
            \/ dir[CachePathOf(r)].mtime >= req[r].at
    /\ (Done(r) /\ req[r].lookup = "stale")
         => /\ req[r].status \in {200, 404, 500}
            /\ req[r].status = 200
                 => /\ req[r].idx = Len(req[r].selected) + 1
                    /\ req[r].served[1].mtime >= req[r].at

C4_Witness ==
  \E r \in Req :
    /\ Done(r) /\ req[r].lookup = "stale" /\ req[r].status = 200
    /\ req[r].age = ZIP_CACHE_MAX_AGE
    /\ req[r].appended # <<>>

\* C5: at most MAX_CONCURRENT_ZIPS archive builds are in progress at once,
\* over all cache keys.
C5_BuildLimit ==
  Cardinality({r \in Req : Building(r)}) <= MAX_CONCURRENT_ZIPS

C7_NoContentFails ==
  \A r \in Req :
    (Built(r) /\ req[r].appended = <<>>) => req[r].status # 200

\* C8: a build in which some but not all fetches failed answers 200 with a
\* complete archive holding exactly the fetched items, in loop order.
C8_PartialSucceeds ==
  \A r \in Req :
    (Built(r) /\ req[r].appended # <<>>
       /\ Len(req[r].appended) < Len(req[r].selected))
      => /\ req[r].status = 200
         /\ Complete(req[r].served[1])
         /\ req[r].served[1].entries = req[r].appended

\* C9: a presented token that differs from the issued one in photo ids or
\* timestamp answers 400 at once; every request that gets as far as the cache
\* lookup carries exactly a token this server issued.
C9_TamperedRejected ==
  \A r \in Req :
    /\ (req[r].pc \notin {"idle", "gone"} /\ req[r].token \notin issued)
         => /\ Done(r) /\ req[r].status = 400
            /\ req[r].lookup = "none" /\ req[r].served = <<>>
    /\ req[r].lookup # "none" => req[r].token \in issued

C9_Witness ==
  \E r \in Req, t \in issued :
    /\ Done(r) /\ req[r].status = 400
    /\ req[r].token \in Tampered(t)
    /\ req[r].token.photoIds # t.photoIds

\* C10: an issued token presented before its expiry is accepted by
\* verification: the request answers neither 400 nor 410.
C10_ValidUntilExpiry ==
  \A r \in Req :
    (/\ req[r].pc \notin {"idle", "gone"}
     /\ req[r].token \in issued
     /\ req[r].at \div 1000 < req[r].token.exp)
      => req[r].status \notin {400, 410}

\* a request that presented its token and got past, or was stopped by, jwt.verify
Presented(r) == req[r].pc \notin {"idle", "gone"}
Expired410(r) == Done(r) /\ req[r].status = 410
Accepted(r) == Presented(r) /\ ~(Done(r) /\ req[r].status \in {400, 410})
IssuedAt(r) == req[r].token.timestamp

\* C11 (as stated): a token issued at issuedAt (any millisecond) fails with
\* Expired whenever it is verified after issuedAt + 7 days, and verifies
\* successfully at issuedAt + 7 days - 1 ms.
C11_ValidToLastMs ==
  \A r \in Req :
    (Presented(r) /\ SignedHere(req[r].token)) =>
      /\ req[r].at > IssuedAt(r) + WindowMs => Expired410(r)
      /\ req[r].at = IssuedAt(r) + WindowMs - 1 => Accepted(r)

\* C11 (amended): verification from issuedAt + 7 days on fails with Expired;
\* it succeeds exactly while the clock's whole second is below the whole
\* second of issuedAt plus 7 days, so at issuedAt + 7 days - 1 ms it succeeds
\* when issuedAt falls on a whole second and fails with Expired otherwise.
C11_ValidToLastSecond ==
  \A r \in Req :
    (Presented(r) /\ SignedHere(req[r].token)) =>
      /\ req[r].at >= IssuedAt(r) + WindowMs => Expired410(r)
      /\ Accepted(r) <=>
           req[r].at \div 1000 < IssuedAt(r) \div 1000 + DOWNLOAD_LINK_EXPIRY
      /\ req[r].at = IssuedAt(r) + WindowMs - 1 =>
           (Accepted(r) <=> IssuedAt(r) % 1000 = 0)
      /\ ~Accepted(r) => Expired410(r)

\* a link issued off a whole second is refused one millisecond before
\* issuedAt + 7 days
C11_Witness ==
  \E r \in Req :
    /\ Expired410(r) /\ SignedHere(req[r].token)
    /\ IssuedAt(r) % 1000 # 0
    /\ req[r].at = IssuedAt(r) + WindowMs - 1

Items(e) == e.body.photoIds.items
IsList(e) == e.body.photoIds.kind = "array"

\* C12: the claims obtained by verifying the token issued for a non-empty
\* list of photo ids within the maximum count hold the same ids in the same
\* order: verify(issue(ids)) = ids.
C12_RoundTrip ==
  \A e \in issueLog :
    e.token # <<>> =>
      /\ IsList(e) /\ Items(e) # <<>> /\ Len(Items(e)) <= MAX_PHOTO_SELECTION
      /\ jwtVerify(e.token[1], JWT_SECRET, e.at) = "ok"
      /\ JSONparse(Payload(e.token[1]).photoIds) = Items(e)

\* a token issued for a list that differs from the rows it resolves to, with
\* an id of two digits
C12_Witness ==
  \E e \in issueLog :
    /\ e.token # <<>>
    /\ SelectSeq2(uploads, Items(e)) # Items(e)
    /\ \E i \in 1..Len(Items(e)) : Items(e)[i] >= 10

\* C13: issuance answers 400 whenever the photo id list is missing, not a
\* list, empty, or longer than MAX_PHOTO_SELECTION, and then signs no token
\* and sends no email.
C13_InvalidListRefused ==
  /\ \A e \in issueLog :
       (~IsList(e) \/ Items(e) = <<>> \/ Len(Items(e)) > MAX_PHOTO_SELECTION)
         => (e.status = 400 /\ e.token = <<>> /\ ~e.mailed)
  /\ \A t \in issued :
       \E e \in issueLog :
         /\ e.token = <<t>>
         /\ IsList(e) /\ Items(e) # <<>> /\ Len(Items(e)) <= MAX_PHOTO_SELECTION

\* a list one over the limit was refused and a list at the limit was signed
C13_Witness ==
  /\ \E e \in issueLog :
       Len(Items(e)) = MAX_PHOTO_SELECTION + 1 /\ e.status = 400
  /\ \E e \in issueLog :
       Len(Items(e)) = MAX_PHOTO_SELECTION /\ e.token # <<>>

\* C14: every retrieval ends in one of the outcomes 400 (invalid token), 410
\* (expired token), 200 (fresh cache hit, or build that succeeded and was
\* installed), 500 (build that failed, a build without any item included) or
\* 429 (too many concurrent builds), each for its own cause.
C14_OneOutcome ==
  \A r \in Req :
    Done(r) =>
      /\ req[r].status \in {200, 400, 410, 429, 500}
      /\ req[r].status = 200 =>
           (req[r].lookup = "fresh" \/ req[r].appended # <<>>)
      /\ (req[r].lookup \in {"stale", "absent"} /\ req[r].appended = <<>>)
           => req[r].status = 500

\* what jwt.verify and the photoIds check refuse at the current moment
Refused(tok) ==
  \/ tok.sig # HS256(Payload(tok), JWT_SECRET)
  \/ now \div 1000 >= tok.exp
  \/ JSONparse(tok.photoIds) = <<>>

\* C15: a retrieval whose token is invalid, expired or without photo ids is
\* answered at once with 400 or 410: no cache lookup, no deletion, no
\* metadata query, no fetch, no temporary file; the cache directory is
\* unchanged by it.
C15_ShortCircuit ==
  [][\A r \in Req :
       (req[r].pc = "idle" /\ req'[r].pc \notin {"idle", "gone"}
          /\ Refused(req'[r].token))
         => /\ req'[r].pc = "done"
            /\ req'[r].status \in {400, 410}
            /\ req'[r].lookup = "none"
            /\ req'[r].selected = <<>> /\ req'[r].appended = <<>>
            /\ req'[r].served = <<>>
            /\ dir' = dir]_vars

\* a correctly signed token without photo ids was refused while the cache
\* directory held a file, and so was a tampered one
C15_Witness ==
  /\ dir # <<>>
  /\ \E r \in Req :
       /\ Done(r) /\ req[r].status = 400
       /\ SignedHere(req[r].token)
       /\ JSONparse(req[r].token.photoIds) = <<>>

\* a step of the janitor: files leave the directory and no request moves
Swept == dir' # dir /\ req' = req
Old(f) == now - f.mtime > ZIP_CACHE_MAX_AGE

\* C16: the janitor removes only files older than the retention window and
\* never a file that a build is writing.
C16_SweepSparesWriters ==
  [][Swept => \A p \in DOMAIN dir \ DOMAIN dir' :
                 Old(dir[p]) /\ dir[p].writers = {}]_vars

\* C17: after a run of the janitor no file older than the retention window
\* is left in the cache directory, also when a listed file disappeared
\* before the run reached it.
C17_SweepRemovesAllOld ==
  [][Swept => \A p \in DOMAIN dir' : ~Old(dir'[p])]_vars

Linked(e) == e.token # <<>>

\* C18: two tokens issued for the same photo id list at different times
\* differ and have different cache paths, and a fresh cache hit only ever
\* streams an archive that a request with the very same token built.
C18_NoCollision ==
  /\ \A e1, e2 \in issueLog :
       (Linked(e1) /\ Linked(e2) /\ Items(e1) = Items(e2) /\ e1.at # e2.at)
         => /\ e1.token[1] # e2.token[1]
            /\ cacheFilePath(tokenHash(e1.token[1]))
                 # cacheFilePath(tokenHash(e2.token[1]))
  /\ \A r \in Req :
       (Done(r) /\ req[r].lookup = "fresh")
         => \E q \in Req \ {r} :
              /\ req[q].token = req[r].token
              /\ Built(q) /\ req[q].status = 200

\* two links for the same list issued within one second, the second built
\* anew while the archive of the first was in the cache
C18_Witness ==
  \E e1, e2 \in issueLog :
    /\ Linked(e1) /\ Linked(e2)
    /\ Items(e1) = Items(e2) /\ e1.at < e2.at
    /\ e1.at \div 1000 = e2.at \div 1000
    /\ \E r, q \in Req :
         /\ req[r].token = e1.token[1] /\ req[q].token = e2.token[1]
         /\ Built(r) /\ Built(q) /\ req[q].lookup = "absent"
         /\ CachePathOf(r) \in DOMAIN dir /\ CachePathOf(q) \in DOMAIN dir

\* C19: when the access code is required, upload URLs, upload confirmations
\* and the photo list are given only to clients that verified the access
\* code through /api/access.
C19_OnlyVerifiedServed ==
  access.required => \A s \in access.served : s.client \in access.granted

\* C20: the deploy script is started only for a POST /webhook whose
\* x-hub-signature-256 header is present and equals the HMAC-SHA256 of the
\* body under WEBHOOK_SECRET and whose payload has action 'completed' and
\* workflow_run.conclusion 'success'; no other request starts a deployment.
C20_DeployOnlySigned ==
  \A a \in hook :
    a.deploy =>
      /\ a.request.route = <<"POST", "/webhook">>
      /\ a.request.signer = "SECRET"
      /\ a.request.body.json = "object"
      /\ a.request.body.action = "completed"
      /\ a.request.body.conclusion = "success"

\* a deployment was started, and the same payload signed under another
\* secret was refused
C20_Witness ==
  \E a, b \in hook :
    /\ a.deploy /\ a.status = 200
    /\ b.request.body = a.request.body /\ b.request.route = a.request.route
    /\ b.request.signer = "other" /\ b.status = 401 /\ ~b.deploy

\* C21: on the gallery page the number of selected photos never exceeds
\* maxSelection, whatever sequence of checkbox changes, lightbox toggles,
\* clear-all and page loads (restore from localStorage) happened.
C21_SelectionWithinLimit ==
  Len(page.selectedPhotos) <= page.maxSelection

\* the selection a reload would restore
Restorable ==
  IF page.saved = <<>> THEN <<>> ELSE NewSet(JSONparse(page.saved[1]))

\* C30: the selection saved in localStorage equals the selection in memory
\* after every operation that changes it, so a reload restores it.
C30_SavedEqualsSelection ==
  \A id \in PagePhotos :
    SetHas(Restorable, id) <=> SetHas(page.selectedPhotos, id)

\* the temp file of a build that a restart cut off is lying in the directory
Leftover(tok) ==
  /\ tempZipPath(tokenHash(tok)) \in DOMAIN dir
  /\ dir[tempZipPath(tokenHash(tok))].writers = {}

\* C22: a retrieval with an issued, unexpired token that arrives after a
\* restart cut a build for its key off is not refused: it starts the build
\* anew (or is served a fresh cache entry), and what it is served is never
\* the leftover of the earlier build.
C22_LeftoverRebuilt ==
  [][\A r \in Req :
       (/\ req[r].pc = "idle" /\ req'[r].pc \notin {"idle", "gone"}
        /\ req'[r].token \in issued
        /\ now \div 1000 < req'[r].token.exp
        /\ Leftover(req'[r].token))
         => \/ req'[r].pc = "db"
            \/ /\ req'[r].pc = "done" /\ req'[r].status = 200
               /\ req'[r].lookup = "fresh"
               /\ req'[r].served # <<dir[tempZipPath(tokenHash(req'[r].token))]>>]_vars

Dropped(r) == ~req[r].connected

\* C23: a build whose requester disconnected goes on to its end (200 or
\* 500); when it ends 200 its archive is installed at the final cache path,
\* and a later request with the same token is a cache hit.
C23_BuildOutlivesRequester ==
  /\ \A r \in Req : (InFlight(r) /\ Dropped(r)) ~> Done(r)
  /\ [](\A r \in Req :
          (Done(r) /\ Dropped(r))
            => /\ req[r].status \in {200, 404, 500}
               /\ req[r].status = 200 => CachePathOf(r) \in DOMAIN dir)
  /\ [][\A r \in Req :
          (/\ req[r].pc = "install" /\ Dropped(r) /\ req'[r].pc = "done"
           /\ tempZipPath(tokenHash(req[r].token)) \in DOMAIN dir)
            => /\ req'[r].status = 200
               /\ CachePathOf(r) \in DOMAIN dir'
               /\ tempZipPath(tokenHash(req[r].token)) \notin DOMAIN dir']_vars
  /\ [][\A r, q \in Req :
          (/\ req[r].pc = "idle" /\ req'[r].pc \notin {"idle", "gone"}
           /\ Done(q) /\ Dropped(q) /\ req[q].status = 200
           /\ req'[r].token = req[q].token)
            => (req'[r].pc = "done" /\ req'[r].lookup = "fresh"
                  /\ req'[r].status = 200)]_vars

\* a requester left during the photo fetches, its build was installed, and
\* the next request with the token was served from the cache
C23_Witness ==
  \E r, q \in Req :
    /\ r # q /\ req[r].token = req[q].token
    /\ Done(q) /\ Dropped(q) /\ Built(q) /\ req[q].status = 200
    /\ req[q].overlapped = {} /\ q \notin req[r].overlapped
    /\ Done(r) /\ req[r].lookup = "fresh"

\* C24: a retrieval that finds a cache entry younger than one hour streams
\* that file and does nothing else: no metadata query, no fetch, no temporary
\* file, and the cache directory, modification times included, is unchanged.
C24_FreshHitOnlyReads ==
  [][\A r \in Req :
       LET tok == req'[r].token
           p == cacheFilePath(tokenHash(tok))
       IN (/\ req[r].pc = "idle" /\ req'[r].pc \notin {"idle", "gone"}
           /\ ~Refused(tok)
           /\ p \in DOMAIN dir
           /\ now - dir[p].mtime < ZIP_CACHE_MAX_AGE)
            => /\ req'[r].pc = "done" /\ req'[r].status = 200
               /\ req'[r].served = <<dir[p]>>
               /\ req'[r].selected = <<>> /\ req'[r].appended = <<>>
               /\ dir' = dir]_vars

\* an entry built half an hour earlier was served and kept its build time
C24_Witness ==
  \E r \in Req :
    /\ Done(r) /\ req[r].lookup = "fresh" /\ req[r].age > 0
    /\ CachePathOf(r) \in DOMAIN dir
    /\ dir[CachePathOf(r)].mtime = req[r].at - req[r].age

IdsOf(r) == {JSONparse(req[r].token.photoIds)[i] :
               i \in 1..Len(JSONparse(req[r].token.photoIds))}
Resolving(r) == SelectSeq(uploads, LAMBDA x : x \in IdsOf(r))

\* C25: ids of a token that no longer resolve are dropped without failing
\* the build, which goes on with the ids that do resolve; when none resolves
\* the retrieval answers 404 and has created no temporary file and installed
\* no cache entry.
C25_UnresolvedDropped ==
  [][\A r \in Req :
       (req[r].pc = "db" /\ req'[r].pc # "db" /\ req'[r].pc # "gone")
         => IF Resolving(r) = <<>>
            THEN /\ req'[r].pc = "done" /\ req'[r].status = 404
                 /\ req'[r].selected = <<>> /\ req'[r].served = <<>>
                 /\ dir' = dir
            ELSE /\ req'[r].pc = "fetch"
                 /\ req'[r].selected = Resolving(r)
                 /\ tempZipPath(tokenHash(req[r].token)) \in DOMAIN dir']_vars

\* a build went on with one of two ids after the other was deleted, and its
\* archive holds exactly the photo that was left
C25_Witness ==
  \E r \in Req :
    /\ Built(r) /\ req[r].status = 200
    /\ req[r].selected # <<>>
    /\ Len(req[r].selected) < Cardinality(IdsOf(r))
    /\ req[r].served[1].entries = [i \in 1..Len(req[r].selected) |->
                                     Filename(req[r].selected[i])]

\* C26: the cache directory holds only completed archives, each at the path
\* named by the digest of its cache key (so one file per key at most), and no
\* other file.
C26_OnlyCompletedArchives ==
  \A p \in DOMAIN dir : IsCachePath(p) /\ Complete(dir[p])

\* C27: issuance answers success only when the email with the link was
\* handed over without error and answers 500 when delivery fails; the token
\* signed for the request verifies either way.
C27_DeliveryReported ==
  \A e \in issueLog :
    Linked(e) =>
      /\ e.status = 200 => e.mailed
      /\ ~e.mailed => e.status = 500
      /\ e.token[1].sig = HS256(Payload(e.token[1]), JWT_SECRET)

\* C28: ProcessingQueue never runs more tasks than its concurrency limit:
\* 0 <= running <= concurrency, and running is the number of tasks started
\* and not yet finished.
C28_RunningWithinLimit ==
  /\ 0 <= queue.running /\ queue.running <= queue.concurrency
  /\ queue.running = Cardinality(queue.active)
  /\ queue.active =
       {queue.started[i] : i \in 1..Len(queue.started)}
         \ {s.of : s \in queue.settled}

\* the limit is reached with a task waiting behind it
C28_Witness ==
  /\ queue.concurrency > 1
  /\ queue.running = queue.concurrency
  /\ queue.waiting # <<>>

Added(t) == t <= queue.added

Started(t) == \E i \in 1..Len(queue.started) : queue.started[i] = t

\* C29: every task passed to add() is eventually started provided running
\* tasks finish; tasks are started in the order they were added; the promise
\* of add() settles with exactly that task's result or error; a task that
\* throws frees its slot, so the tasks behind it are started.
C29_EveryTaskStartedInOrder ==
  /\ \A t \in 1..MaxTasks : Added(t) ~> Started(t)
  /\ [](\A i, j \in 1..Len(queue.started) :
          i < j => queue.started[i] < queue.started[j])
  /\ [](\A s \in queue.settled :
          /\ s.of = s.promise
          /\ Started(s.promise)
          /\ \A o \in queue.settled : o.promise = s.promise => o = s)
  /\ [](\A t \in 1..MaxTasks : Started(t) /\ t \notin queue.active
          => \E s \in queue.settled : s.promise = t)
  /\ [][\A t \in 1..MaxTasks :
          (\E fulfilled \in BOOLEAN : TaskSettles(t, fulfilled))
            /\ queue.running = queue.concurrency /\ queue.waiting # <<>>
          => \E i \in 1..Len(queue'.started) :
               queue'.started[i] = Head(queue.waiting).id]_vars
  /\ [](queue.running < queue.concurrency => queue.waiting = <<>>)

\* a task was rejected and a task added after it, which had to wait, has
\* been started
C29_Witness ==
  \E s \in queue.settled, t \in 1..MaxTasks :
    /\ s.kind = "rejected"
    /\ t > s.promise
    /\ Started(t)
    /\ \E i \in 1..Len(queue.started) :
         queue.started[i] = t /\ i > queue.concurrency
====
